---- MODULE Spec2Model ----
(***************************************************************************)
(* todow: a to-do list server (cmd/todow-server) that keeps the whole item *)
(* collection as one JSON array under one key of one bolt bucket, and      *)
(* serves it over HTTP behind Basic auth.                                  *)
(*                                                                         *)
(* The model follows one request per worker goroutine through the mux, the *)
(* auth middleware, the handler, the bolt transaction and the response.    *)
(* bolt is used through its documented contract: db.Update runs its        *)
(* closure under the single writer lock on a private copy and commits it   *)
(* when the closure returns nil and rolls it back otherwise; db.View reads *)
(* the last committed state; a byte slice returned by Bucket.Get is valid  *)
(* only while its transaction is open.                                     *)
(***************************************************************************)
EXTENDS Integers, Sequences, FiniteSets, TLC

\* ------------------------------------------------------------------ bounds

\* Largest ID an Add may assign in the model (the code has no such limit;
\* an Add that would assign a larger ID is not taken).  IDs are unique, so
\* this also bounds the length of the collection.
MaxID == 2

\* Instants the clock (time.Now) and a client's Created field range over.
MaxTime == 1

\* The worker goroutines: two requests are handled at the same time.
Workers == {1, 2}
Times == 1..MaxTime

\* ------------------------------------------------------- package constants

HTTPUser == "todow"
HTTPPassword == "todow"
APIPath == <<"/", "a", "p", "i", "/">>

\* The -u and -p flags at their defaults.
user == HTTPUser
pass == HTTPPassword

\* ------------------------------------------------------------------ values

Nil == "nil"

\* A string with a byte that is not valid UTF-8, and what encoding/json
\* writes and reads for it (the replacement character U+FFFD).
BadUTF8 == "dog<ff>"
Replaced == "dog<fffd>"
Bodies == {"milk", BadUTF8}

\* time.Time: the wall instant, and whether the value carries a monotonic
\* clock reading (time.Now does, a decoded timestamp does not).
Time(t, m) == [wall |-> t, mono |-> m]
ZeroTime == Time(0, FALSE)

\* The zero todow.Item.
Item == [ID |-> 0, Body |-> "", Created |-> ZeroTime, Done |-> FALSE]

\* ------------------------------------------------------------ encoding/json

DigitChars == <<"0", "1", "2", "3", "4", "5", "6", "7", "8", "9">>

IsDigit(c) == \E d \in 1..10 : DigitChars[d] = c

DigitVal(c) == (CHOOSE d \in 1..10 : DigitChars[d] = c) - 1

\* strconv.FormatInt(n, 10) for n >= 0, as json.Marshal writes an int64.
RECURSIVE FormatInt(_)
FormatInt(n) ==
    IF n < 10 THEN <<DigitChars[n + 1]>>
    ELSE Append(FormatInt(n \div 10), DigitChars[(n % 10) + 1])

\* strconv.ParseInt(s, 10, 64) of a run of digits.  The paths of the model
\* are far below the int64 range, where ParseInt saturates.
RECURSIVE ParseInt(_)
ParseInt(s) ==
    IF s = <<>> THEN 0
    ELSE 10 * ParseInt(SubSeq(s, 1, Len(s) - 1)) + DigitVal(s[Len(s)])

\* A Go string as JSON text: invalid UTF-8 is coerced to U+FFFD.
EncodeString(s) == IF s = BadUTF8 THEN Replaced ELSE s

\* time.Time.MarshalJSON: the RFC 3339 text of the wall instant; the
\* monotonic reading is not part of it.
MarshalTime(t) == <<"rfc3339", t.wall>>

UnmarshalTime(j) == Time(j[2], FALSE)

MarshalItem(it) ==
    [ID |-> FormatInt(it.ID), Body |-> EncodeString(it.Body),
     Created |-> MarshalTime(it.Created),
     Done |-> IF it.Done THEN "true" ELSE "false"]

UnmarshalItem(j) ==
    [ID |-> ParseInt(j.ID), Body |-> j.Body,
     Created |-> UnmarshalTime(j.Created), Done |-> (j.Done = "true")]

\* json.Marshal(col): the JSON array, one object per item, in order.
Marshal(col) == [i \in 1..Len(col) |-> MarshalItem(col[i])]

\* json.NewDecoder(p).Decode(&col)
Unmarshal(p) == [i \in 1..Len(p) |-> UnmarshalItem(p[i])]

\* Bytes that are no JSON array the server ever wrote.
Garbage == <<[ID |-> <<"?">>, Body |-> "?", Created |-> <<"?", 0>>, Done |-> "?"]>>

\* --------------------------------------------------------------- the store

\* The committed bolt file: whether bucket "todow" exists, whether it holds
\* key "items" (buck.Get returns nil when it does not), and the bytes under
\* the key.
NoBucket == [bucket |-> FALSE, key |-> FALSE, val |-> <<>>]

\* Error values, by dynamic type.
NoErr == [type |-> Nil, msg |-> ""]
ErrNotFoundPtr == [type |-> "*ErrNotFound", msg |-> "not found"]
ErrNoItems == [type |-> "*errors.errorString", msg |-> "no items yet"]

\* The ID loop of boltDB.addItem.
RECURSIVE NextIDFrom(_, _, _)
NextIDFrom(col, i, id) ==
    IF i > Len(col) THEN id
    ELSE NextIDFrom(col, i + 1, IF col[i].ID >= id THEN col[i].ID + 1 ELSE id)

\* The ID loop with > for >=: an ID equal to the candidate is not stepped over.
NextIDSkipsEqual(col) ==
    LET RECURSIVE Loop(_, _)
        Loop(i, id) ==
            IF i > Len(col) THEN id
            ELSE Loop(i + 1, IF col[i].ID > id THEN col[i].ID + 1 ELSE id)
    IN Loop(1, 1)

NextID(col) == NextIDFrom(col, 1, 1)

\* The index of the first item with this ID, 0 if there is none
\* (for i, v := range col { if v.ID == id ...).
IndexOfID(col, id) ==
    IF \E i \in 1..Len(col) : col[i].ID = id
    THEN CHOOSE i \in 1..Len(col) :
            col[i].ID = id /\ \A k \in 1..(i - 1) : col[k].ID # id
    ELSE 0

\* The closure of boltDB.addItem without the overwrite of a decoded ID.
addItemKeepsID(t, item) ==
    LET col == IF t.key THEN Unmarshal(t.val) ELSE <<>>
        it == IF item.ID # 0 THEN item ELSE [item EXCEPT !.ID = NextID(col)]
    IN [tx |-> [bucket |-> TRUE, key |-> TRUE, val |-> Marshal(Append(col, it))],
        err |-> NoErr, item |-> it]

\* The closure of boltDB.addItem on the transaction's view t of the file:
\* the view it leaves, the error it returns, and the caller's item.
addItemTx(t, item) ==
    LET col == IF t.key THEN Unmarshal(t.val) ELSE <<>>
        it == [item EXCEPT !.ID = NextID(col)]
    IN [tx |-> [bucket |-> TRUE, key |-> TRUE, val |-> Marshal(Append(col, it))],
        err |-> NoErr, item |-> it]

\* The closure of boltDB.removeItem with col[i+2:] for col[i+1:].
removeItemKeepsNext(t, id, item) ==
    LET col == IF t.key THEN Unmarshal(t.val) ELSE <<>>
        i == IndexOfID(col, id)
    IN IF ~t.key \/ i = 0
       THEN [tx |-> [t EXCEPT !.bucket = TRUE], err |-> ErrNotFoundPtr, item |-> item]
       ELSE [tx |-> [bucket |-> TRUE, key |-> TRUE,
                     val |-> Marshal(SubSeq(col, 1, i - 1) \o SubSeq(col, i + 2, Len(col)))],
             err |-> NoErr, item |-> item]

\* The closure of boltDB.removeItem.
removeItemTx(t, id, item) ==
    LET col == IF t.key THEN Unmarshal(t.val) ELSE <<>>
        i == IndexOfID(col, id)
    IN IF ~t.key \/ i = 0
       THEN [tx |-> [t EXCEPT !.bucket = TRUE], err |-> ErrNotFoundPtr, item |-> item]
       ELSE [tx |-> [bucket |-> TRUE, key |-> TRUE,
                     val |-> Marshal(SubSeq(col, 1, i - 1) \o SubSeq(col, i + 1, Len(col)))],
             err |-> NoErr, item |-> item]

\* The closure of boltDB.completeItem setting Done on every item.
completeItemAll(t, id, item) ==
    LET col == IF t.key THEN Unmarshal(t.val) ELSE <<>>
        i == IndexOfID(col, id)
    IN IF ~t.key \/ i = 0
       THEN [tx |-> [t EXCEPT !.bucket = TRUE], err |-> ErrNotFoundPtr, item |-> item]
       ELSE [tx |-> [bucket |-> TRUE, key |-> TRUE,
                     val |-> Marshal([k \in 1..Len(col) |-> [col[k] EXCEPT !.Done = TRUE]])],
             err |-> NoErr, item |-> item]

\* The closure of boltDB.completeItem refusing an item that is done.
completeItemOnce(t, id, item) ==
    LET col == IF t.key THEN Unmarshal(t.val) ELSE <<>>
        i == IndexOfID(col, id)
    IN IF ~t.key \/ i = 0 \/ (i # 0 /\ col[i].Done)
       THEN [tx |-> [t EXCEPT !.bucket = TRUE], err |-> ErrNotFoundPtr, item |-> item]
       ELSE [tx |-> [bucket |-> TRUE, key |-> TRUE,
                     val |-> Marshal([col EXCEPT ![i].Done = TRUE])],
             err |-> NoErr, item |-> item]

\* The closure of boltDB.completeItem flipping Done instead of setting it.
completeItemToggle(t, id, item) ==
    LET col == IF t.key THEN Unmarshal(t.val) ELSE <<>>
        i == IndexOfID(col, id)
    IN IF ~t.key \/ i = 0
       THEN [tx |-> [t EXCEPT !.bucket = TRUE], err |-> ErrNotFoundPtr, item |-> item]
       ELSE [tx |-> [bucket |-> TRUE, key |-> TRUE,
                     val |-> Marshal([col EXCEPT ![i].Done = ~col[i].Done])],
             err |-> NoErr, item |-> item]

\* The closure of boltDB.completeItem.
completeItemTx(t, id, item) ==
    LET col == IF t.key THEN Unmarshal(t.val) ELSE <<>>
        i == IndexOfID(col, id)
    IN IF ~t.key \/ i = 0
       THEN [tx |-> [t EXCEPT !.bucket = TRUE], err |-> ErrNotFoundPtr, item |-> item]
       ELSE [tx |-> [bucket |-> TRUE, key |-> TRUE,
                     val |-> Marshal([col EXCEPT ![i].Done = TRUE])],
             err |-> NoErr, item |-> item]

\* db.Update committing whatever the closure returned.
CommitAlways(t, res) == res.tx

\* What db.Update leaves in the file when its closure has returned: the
\* transaction's view if the error is nil (commit), the file as it was
\* otherwise (rollback).
UpdateEnd(t, res) == IF res.err = NoErr THEN res.tx ELSE t

\* The closure of boltDB.allItems on the committed file.
allItemsView(t) ==
    IF ~t.bucket THEN [buf |-> <<>>, err |-> ErrNoItems]
    ELSE IF ~t.key THEN [buf |-> <<>>, err |-> ErrNoItems]
    ELSE [buf |-> t.val, err |-> NoErr]

\* ---------------------------------------------------------------- requests

Slash == <<"/">>

\* Request paths: the root page, the API prefix without and with its slash,
\* the prefix followed by an ID, by a letter, and by an ID and a letter.
Paths ==
    {Slash, <<"/", "a", "p", "i">>, APIPath, APIPath \o <<"x">>,
     APIPath \o <<"1", "x">>}
    \cup {APIPath \o FormatInt(i) : i \in 1..MaxID}

Methods == {"GET", "POST", "DELETE", "PATCH", "PUT"}

\* Basic credentials as r.BasicAuth returns them: the right pair, and a
\* wrong password.
GoodCred == <<HTTPUser, HTTPPassword>>
BadCred == <<HTTPUser, "wrong">>

TypeJSON == "application/json"
TypeForm == "application/x-www-form-urlencoded"
TypeOther == "text/plain"

\* A request body: JSON text that does not decode, the JSON text of an item
\* (any ID and Done the client likes), or a form with field "body".
NoBody == [kind |-> "none", json |-> MarshalItem(Item), form |-> ""]
Malformed == [kind |-> "malformed", json |-> MarshalItem(Item), form |-> ""]
JSONBody(it) == [kind |-> "json", json |-> MarshalItem(it), form |-> ""]
FormBody(b) == [kind |-> "form", json |-> MarshalItem(Item), form |-> b]

\* The items a JSON client sends: what the command-line client builds (its
\* text and its clock), and one written by hand with an ID and Done set.
ClientItems ==
    {[Item EXCEPT !.Body = b, !.Created = Time(t, TRUE)] : b \in Bodies, t \in Times}
    \cup {[ID |-> 1, Body |-> "milk", Created |-> Time(t, FALSE), Done |-> TRUE] :
            t \in Times}

Request(m, p, c, ct, b) ==
    [method |-> m, path |-> p, cred |-> c, ctype |-> ct, body |-> b]

\* The requests of any client: every method on every path with the right
\* credentials, the same on some paths with wrong ones, and the POST
\* bodies.
Requests ==
    {Request(m, p, GoodCred, "", NoBody) : m \in Methods \ {"POST"}, p \in Paths}
    \cup {Request(m, p, BadCred, "", NoBody) :
            m \in Methods, p \in {Slash, APIPath, APIPath \o <<"1">>}}
    \cup {Request("POST", p, GoodCred, TypeOther, NoBody) : p \in {Slash, APIPath}}
    \cup {Request("POST", APIPath, GoodCred, TypeJSON, Malformed)}
    \cup {Request("POST", APIPath, c, TypeJSON, JSONBody(it)) :
            c \in {GoodCred}, it \in ClientItems}
    \cup {Request("POST", APIPath, GoodCred, TypeForm, FormBody(b)) : b \in Bodies}

\* The requests of the command-line client (cmd/todow): add, rm and c, and
\* ls, each with the right credentials and the JSON content type; add
\* sends the JSON text of an item with its text and the client's clock
\* (one text and one instant here).
CLIWrites ==
    {Request(m, APIPath \o FormatInt(i), GoodCred, TypeJSON, NoBody) :
        m \in {"DELETE", "PATCH"}, i \in 1..MaxID}
    \cup {Request("POST", APIPath, GoodCred, TypeJSON,
                  JSONBody([Item EXCEPT !.Body = "milk", !.Created = Time(1, TRUE)]))}

CLIRequests == CLIWrites \cup {Request("GET", APIPath, GoodCred, TypeJSON, NoBody)}

\* The requests worker w may be handed.  Under "any" traffic one worker
\* serves any request; under "cli" traffic every worker serves the
\* client's writes and the first its listing too (a read writes nothing
\* another read could see).
Traffic(l, w) ==
    IF l = "any" THEN IF w = 1 THEN Requests ELSE {}
    ELSE IF w = 1 THEN CLIRequests ELSE CLIWrites

NoReq == Request("", <<>>, <<"", "">>, "", NoBody)

\* --------------------------------------------------------------- responses

Response(st, hdr, text, id, bytes) ==
    [status |-> st, hdr |-> hdr, text |-> text, id |-> id, json |-> bytes]

NoResp == Response(0, "", "", 0, <<>>)

\* http.Error(w, msg, code)
Error(msg, code) == Response(code, "", msg, 0, <<>>)

\* http.NotFound(w, r)
NotFound == Error("404 page not found", 404)

\* What a handler has left to do once the request is read: a store
\* operation, then the response.
Op(kind, typ, id, item) == [kind |-> kind, typ |-> typ, id |-> id, item |-> item]

NoOp == Op("none", "", 0, Item)

\* What serving a request comes to before any store call: a response, or
\* the store operation to run.
Reply(resp) == [resp |-> resp, op |-> NoOp]
Store(op) == [resp |-> NoResp, op |-> op]

HasPrefix(s, p) == Len(s) >= Len(p) /\ SubSeq(s, 1, Len(p)) = p

\* idRegexp.FindStringSubmatch(path) for idRegexp = APIPath + "([0-9]+)":
\* the leftmost place where the prefix is followed by a digit, and the
\* longest run of digits there.  <<>> when there is no match, else
\* <<whole match, group 1>>.
FindStringSubmatch(path) ==
    LET At(i) == /\ i + Len(APIPath) <= Len(path)
                 /\ SubSeq(path, i, i + Len(APIPath) - 1) = APIPath
                 /\ IsDigit(path[i + Len(APIPath)])
        Starts == {i \in 1..Len(path) : At(i)}
    IN IF Starts = {} THEN <<>>
       ELSE LET i == CHOOSE a \in Starts : \A b \in Starts : a <= b
                from == i + Len(APIPath)
                to == CHOOSE k \in from..Len(path) :
                        /\ \A j \in from..k : IsDigit(path[j])
                        /\ (k = Len(path) \/ ~IsDigit(path[k + 1]))
            IN <<SubSeq(path, i, to), SubSeq(path, from, to)>>

authorized(u, p) == u = user /\ p = pass

\* authMiddleware(h): 401 with a challenge unless the credentials match,
\* and then h.
authMiddleware(r, h) ==
    IF ~authorized(r.cred[1], r.cred[2])
    THEN Reply(Response(401, "WWW-Authenticate: Basic", "Unauthorized", 0, <<>>))
    ELSE h

\* withID(h): the ID of the path handed to h, or 404.
withID(r, kind) ==
    LET m == FindStringSubmatch(r.path)
    IN IF Len(m) = 0 THEN Reply(NotFound)
       ELSE Store(Op(kind, "", ParseInt(m[2]), Item))

\* The handler addItem up to its call of db.addItem.
addItem(r, now) ==
    IF r.ctype = TypeJSON
    THEN IF r.body.kind # "json"
         THEN Reply(Error("unable to decode todo item", 400))
         ELSE Store(Op("add", "cli", 0, UnmarshalItem(r.body.json)))
    ELSE IF r.ctype = TypeForm
    THEN Store(Op("add", "form", 0,
                  [Item EXCEPT !.Body = r.body.form, !.Created = Time(now, TRUE)]))
    ELSE Reply(Error("content type not supported", 400))

\* The handler registered for APIPath in main.
apiHandler(r, now) ==
    CASE r.method = "GET" -> authMiddleware(r, Store(Op("all", "", 0, Item)))
      [] r.method = "POST" -> authMiddleware(r, addItem(r, now))
      [] r.method = "DELETE" -> authMiddleware(r, withID(r, "remove"))
      [] r.method = "PATCH" -> authMiddleware(r, withID(r, "complete"))
      [] OTHER -> Reply(NotFound)

\* The handler registered for "/" in main.
rootHandler(r) == authMiddleware(r, Store(Op("root", "", 0, Item)))

\* http.DefaultServeMux with the two patterns of main: a path under APIPath
\* goes to the API handler, APIPath without its trailing slash is
\* redirected to it, and every other path goes to "/".
ServeMux(r, now) ==
    IF HasPrefix(r.path, APIPath) THEN apiHandler(r, now)
    ELSE IF r.path \o Slash = APIPath
    THEN Reply(Response(301, "Location: /api/", "", 0, <<>>))
    ELSE rootHandler(r)

\* The response of addItem reporting the ID of the decoded item as it was
\* before db.addItem assigned one.
addItemResponseSentID(op, res) ==
    IF res.err # NoErr THEN Error(res.err.msg, 500)
    ELSE IF op.typ = "cli" THEN Response(201, "", "Added item #", op.item.ID, <<>>)
    ELSE Response(303, "Location: /", "", 0, <<>>)

\* The response of the handler addItem once db.addItem has returned.
addItemResponse(op, res) ==
    IF res.err # NoErr THEN Error(res.err.msg, 500)
    ELSE IF op.typ = "cli" THEN Response(201, "", "Added item #", res.item.ID, <<>>)
    ELSE Response(303, "Location: /", "", 0, <<>>)

\* The type switch of the handlers removeItem and completeItem: the case
\* ErrNotFound is taken by an error whose dynamic type is ErrNotFound.
ErrorSwitch(err, text, id) ==
    IF err.type = "ErrNotFound" THEN NotFound
    ELSE IF err # NoErr THEN Error(err.msg, 500)
    ELSE Response(200, "", text, id, <<>>)

removeItem(op, res) == ErrorSwitch(res.err, "Removed item #", op.id)

completeItem(op, res) == ErrorSwitch(res.err, "Completed item #", op.id)

\* ------------------------------------------------------------------- state

VARIABLES
    db,      \* the committed bolt file
    lock,    \* the worker inside db.Update (bolt's writer lock), 0 if none
    wk,      \* per worker: where its request is
    last,    \* the request completed by the latest step, and its response
    load,    \* the traffic: "any" request, one at a time, or the requests
             \* of command-line clients ("cli"), one per worker
    issued   \* history: the IDs committed Adds have assigned so far

vars == <<db, lock, wk, last, load, issued>>

NoRes == [tx |-> NoBucket, err |-> NoErr, item |-> Item]

Idle == [pc |-> "idle", req |-> NoReq, op |-> NoOp, res |-> NoRes,
         buf |-> <<>>, stale |-> 0]

\* A completed request: the worker, the request, the store operation it
\* came to (NoOp if none was called), what the operation returned, the
\* response, and (history) whether an Add's ID had never been assigned
\* before and what a read's transaction saw.
Completed(w, req, op, res, resp, fresh, snap) ==
    [w |-> w, req |-> req, op |-> op, err |-> res.err, item |-> res.item,
     resp |-> resp, fresh |-> fresh, snap |-> snap]

NoLast == Completed(0, NoReq, NoOp, NoRes, NoResp, TRUE, <<>>)

Init ==
    /\ db = NoBucket
    /\ lock = 0
    /\ wk = [w \in Workers |-> Idle]
    /\ last = NoLast
    /\ load \in {"any", "cli"}
    /\ issued = {}

\* A worker takes a request through the mux, the middleware and the
\* handler up to the handler's store call; a request that needs none is
\* answered at once.
Receive(w) ==
    /\ wk[w].pc = "idle"
    /\ \E r \in Traffic(load, w) :
       \E now \in IF r.ctype = TypeForm THEN Times ELSE {1} :
        LET d == ServeMux(r, now)
        IN IF d.op = NoOp
           THEN /\ last' = Completed(w, r, NoOp, NoRes, d.resp, TRUE, <<>>)
                /\ wk' = wk
           ELSE /\ last' = NoLast
                /\ wk' = [wk EXCEPT ![w] =
                            [Idle EXCEPT !.req = r, !.op = d.op,
                               !.pc = IF d.op.kind \in {"all", "root"}
                                      THEN "view" ELSE "update"]]
    /\ UNCHANGED <<db, lock, load, issued>>

\* The closure a worker's operation hands to db.Update.
Closure(t, op) ==
    CASE op.kind = "add" -> addItemTx(t, op.item)
      [] op.kind = "remove" -> removeItemTx(t, op.id, op.item)
      [] op.kind = "complete" -> completeItemTx(t, op.id, op.item)

\* db.Update starting its closure though another writer's transaction is
\* open.
UpdateNoLock(w) ==
    /\ wk[w].pc = "update"
    /\ LET res == Closure(db, wk[w].op)
       IN /\ res.item.ID <= MaxID
          /\ wk' = [wk EXCEPT ![w].res = res, ![w].pc = "commit"]
    /\ lock' = w
    /\ last' = NoLast
    /\ UNCHANGED <<db, load, issued>>

\* db.Update takes the writer lock and runs the closure on its own view of
\* the file.
Update(w) ==
    /\ wk[w].pc = "update"
    /\ lock = 0
    /\ LET res == Closure(db, wk[w].op)
       IN /\ res.item.ID <= MaxID
          /\ wk' = [wk EXCEPT ![w].res = res, ![w].pc = "commit"]
    /\ lock' = w
    /\ last' = NoLast
    /\ UNCHANGED <<db, load, issued>>

\* The response of the handler to what its store operation returned.
Respond(op, res) ==
    CASE op.kind = "add" -> addItemResponse(op, res)
      [] op.kind = "remove" -> removeItem(op, res)
      [] op.kind = "complete" -> completeItem(op, res)

\* A committed write frees the page a reader's byte slice points into; the
\* write after that may reuse it.
Aged(k, res) ==
    IF k.pc = "use" /\ res.err = NoErr /\ k.stale < 2
    THEN [k EXCEPT !.stale = k.stale + 1] ELSE k

\* db.Update commits or rolls back and releases the lock, and the handler
\* writes its response.
Commit(w) ==
    /\ wk[w].pc = "commit"
    /\ lock = w
    /\ LET op == wk[w].op
           res == wk[w].res
       IN /\ db' = UpdateEnd(db, res)
          /\ last' = Completed(w, wk[w].req, op, res, Respond(op, res),
                               op.kind = "add" => res.item.ID \notin issued, <<>>)
          /\ issued' = IF op.kind = "add" /\ res.err = NoErr
                       THEN issued \cup {res.item.ID} ELSE issued
          /\ wk' = [v \in Workers |-> IF v = w THEN Idle ELSE Aged(wk[v], res)]
    /\ lock' = 0
    /\ UNCHANGED load

\* db.View runs the closure of boltDB.allItems on the committed file.  On
\* an error the handler answers 500; else it is left holding the slice.
View(w) ==
    /\ wk[w].pc = "view"
    /\ LET v == allItemsView(db)
           op == wk[w].op
       IN IF v.err # NoErr
          THEN /\ last' = Completed(w, wk[w].req, op, [NoRes EXCEPT !.err = v.err],
                                    Error(v.err.msg, 500), TRUE, <<>>)
               /\ wk' = [wk EXCEPT ![w] = Idle]
          ELSE /\ last' = NoLast
               /\ wk' = [wk EXCEPT ![w].buf = v.buf, ![w].stale = 0, ![w].pc = "use"]
    /\ UNCHANGED <<db, lock, load, issued>>

\* What the slice returned by buck.Get holds when it is read after the
\* View transaction has closed: the bytes read, unless the page has been
\* freed and written again since.
BufNow(k) == {k.buf} \cup (IF k.stale >= 2 THEN {Garbage} ELSE {})

\* The handler allItems writes the slice; the root page decodes it and
\* renders the items.
Use(w) ==
    /\ wk[w].pc = "use"
    /\ \E p \in BufNow(wk[w]) :
        LET op == wk[w].op
            resp == IF op.kind = "all"
                    THEN Response(200, "Content-Type: application/json", "", 0, p)
                    ELSE IF p = Garbage
                    THEN Error("unable to unmarshal collection", 500)
                    ELSE Response(200, "", "<html>", 0, p)
        IN last' = Completed(w, wk[w].req, op, NoRes, resp, TRUE, wk[w].buf)
    /\ wk' = [wk EXCEPT ![w] = Idle]
    /\ UNCHANGED <<db, lock, load, issued>>

Next == \E w \in Workers : Receive(w) \/ Update(w) \/ Commit(w) \/ View(w) \/ Use(w)

Spec == Init /\ [][Next]_vars

\* ------------------------------------------------------------------ claims

\* The collection a state of the file holds (empty when the key is absent).
Col(t) == IF t.key THEN Unmarshal(t.val) ELSE <<>>

IDSet(col) == {col[i].ID : i \in 1..Len(col)}

IsNotFound(err) == err.type \in {"ErrNotFound", "*ErrNotFound"}

Challenge == "WWW-Authenticate: Basic"

\* Worker w is inside db.Update with the closure of an operation of this
\* kind returned and the commit or rollback still to come (db is the file
\* as the closure found it: the writer lock is held).
Ending(w, kind) == wk[w].pc = "commit" /\ wk[w].op.kind = kind

\* C1: an authenticated DELETE or PATCH whose store operation fails with
\* NotFound is answered 404, and one that fails with any other error 500.
C1_NotFoundIs404 ==
    (last.op.kind \in {"remove", "complete"} /\ last.err # NoErr)
        => last.resp.status = IF IsNotFound(last.err) THEN 404 ELSE 500

\* C2: a request without valid credentials is answered 401 with the
\* challenge, and no store operation is called, whatever its method and
\* path.
C2_UnauthorizedIs401 ==
    (last.w # 0 /\ ~authorized(last.req.cred[1], last.req.cred[2]))
        => /\ last.resp.status = 401
           /\ last.resp.hdr = Challenge
           /\ last.op = NoOp

\* C3: the ID an Add assigns is 1 + the largest ID present in the
\* collection at that moment, or 1 if the collection is empty or absent;
\* so it is greater than every ID present.
C3_AddAssignsMaxPlusOne ==
    \A w \in Workers :
        Ending(w, "add") =>
            LET old == IDSet(Col(db))
                id == wk[w].res.item.ID
                new == Col(wk[w].res.tx)
            IN /\ wk[w].res.err = NoErr
               /\ new[Len(new)].ID = id
               /\ old = {} => id = 1
               /\ old # {} => id - 1 \in old
               /\ \A x \in old : x < id

C3_Witness ==
    \E w \in Workers :
        /\ Ending(w, "add")
        /\ IDSet(Col(db)) = {1}
        /\ wk[w].res.item.ID = 2

\* C4: no two items of the stored collection have the same ID, and every
\* ID is at least 1.
C4_IDsUniquePositive ==
    LET col == Col(db)
    IN /\ \A i \in 1..Len(col) : col[i].ID >= 1
       /\ \A i, j \in 1..Len(col) : i # j => col[i].ID # col[j].ID

C4_Witness ==
    /\ last.op.kind = "add"
    /\ last.op.item.ID = 1
    /\ last.err = NoErr
    /\ last.item.ID = 2
    /\ Len(Col(db)) = 2

C6_AbsentIDLeavesStore ==
    [][\A w \in Workers :
          (/\ Ending(w, "remove") \/ Ending(w, "complete")
           /\ wk[w].op.id \notin IDSet(Col(db))
           /\ wk'[w].pc = "idle")
          => /\ IsNotFound(last'.err)
             /\ db' = db
             /\ allItemsView(db').err = allItemsView(db).err]_vars

C6_Witness ==
    /\ last.op.kind \in {"remove", "complete"}
    /\ IsNotFound(last.err)
    /\ ~db.bucket

\* C7: a read returns the collection as some committed transaction left
\* it: the bytes its View transaction saw, whatever is written meanwhile.
C7_ReadsSeeCommitted ==
    (last.op.kind \in {"all", "root"} /\ last.resp.status = 200)
        => last.resp.json = last.snap

C9_CompleteSetsDoneOnly ==
    [][\A w \in Workers :
          (/\ Ending(w, "complete")
           /\ wk[w].op.id \in IDSet(Col(db))
           /\ wk'[w].pc = "idle")
          => LET old == Col(db)
                 new == Col(db')
             IN /\ last'.err = NoErr
                /\ Len(new) = Len(old)
                /\ \A k \in 1..Len(old) :
                     /\ new[k].ID = old[k].ID
                     /\ new[k].Body = old[k].Body
                     /\ new[k].Created = old[k].Created
                     /\ new[k].Done = (old[k].Done \/ old[k].ID = wk[w].op.id)]_vars

C9_Witness ==
    /\ last.op.kind = "complete"
    /\ last.err = NoErr
    /\ Len(Col(db)) = 2
    /\ \E k \in 1..2 : Col(db)[k].ID # last.op.id /\ ~Col(db)[k].Done

\* C10: Complete of an item that is already done succeeds again with 200,
\* and leaves the collection as the first Complete left it, Done still
\* true.
C10_CompleteIdempotent ==
    [][\A w \in Workers :
          (/\ Ending(w, "complete")
           /\ \E k \in 1..Len(Col(db)) :
                Col(db)[k].ID = wk[w].op.id /\ Col(db)[k].Done
           /\ wk'[w].pc = "idle")
          => /\ last'.err = NoErr
             /\ last'.resp.status = 200
             /\ db' = db]_vars

C10_Witness ==
    \E w \in Workers :
        /\ Ending(w, "complete")
        /\ wk[w].res.err = NoErr
        /\ wk[w].res.tx = db
        /\ \E k \in 1..Len(Col(db)) : Col(db)[k].ID = wk[w].op.id /\ Col(db)[k].Done

\* The Body a request submits: the form field, or the string the JSON text
\* of the body spells.
SubmittedBody(r) ==
    IF r.ctype = TypeForm THEN r.body.form ELSE UnmarshalItem(r.body.json).Body

\* The instant of the Created a request submits: the one in the JSON text,
\* or for a form the server's clock as the handler read it.
SubmittedWall(w) ==
    IF wk[w].req.ctype = TypeForm THEN wk[w].op.item.Created.wall
    ELSE UnmarshalItem(wk[w].req.body.json).Created.wall

\* C11: a successful Add leaves the previous collection (empty if absent)
\* with one item appended at its end; the items that were there keep their
\* order and fields, and the new one has the assigned ID and the Body and
\* Created that were submitted.
C11_AddAppendsSubmitted ==
    [][\A w \in Workers :
          (Ending(w, "add") /\ wk'[w].pc = "idle")
          => LET old == Col(db)
                 new == Col(db')
             IN /\ last'.err = NoErr
                /\ Len(new) = Len(old) + 1
                /\ \A k \in 1..Len(old) : new[k] = old[k]
                /\ new[Len(new)].ID = last'.item.ID
                /\ new[Len(new)].Created.wall = SubmittedWall(w)
                /\ new[Len(new)].Body = SubmittedBody(wk[w].req)]_vars

\* C12: an authenticated GET on the API prefix is answered 200 with the
\* stored collection as a JSON array when the key exists, and 500 "no
\* items yet" exactly when the bucket or the key is absent.
C12_GetReturnsCollection ==
    (last.op.kind = "all")
        => IF last.err = NoErr
           THEN /\ last.resp.status = 200
                /\ last.resp.hdr = "Content-Type: application/json"
                /\ last.resp.json = last.snap
           ELSE /\ last.resp = Error("no items yet", 500)
                /\ ~(db.bucket /\ db.key)

\* C13: an authenticated POST on the API prefix with a JSON body that is
\* stored is answered 201 "Added item #N", N the ID stored for the new
\* item; with a form that is stored, 303 to the root page; with another
\* content type or JSON that does not decode, 400, and the store is not
\* called and the file not changed.
C13_PostResponses ==
    [][(/\ last'.w # 0
        /\ last'.req.method = "POST"
        /\ HasPrefix(last'.req.path, APIPath)
        /\ authorized(last'.req.cred[1], last'.req.cred[2])
        /\ last'.err = NoErr)
       => LET r == last'.req
              new == Col(db')
          IN IF r.ctype = TypeJSON /\ r.body.kind = "json"
             THEN /\ last'.resp.status = 201
                  /\ last'.resp.text = "Added item #"
                  /\ Len(new) = Len(Col(db)) + 1
                  /\ last'.resp.id = new[Len(new)].ID
             ELSE IF r.ctype = TypeForm
             THEN /\ last'.resp.status = 303
                  /\ last'.resp.hdr = "Location: /"
                  /\ Len(new) = Len(Col(db)) + 1
             ELSE /\ last'.resp.status = 400
                  /\ last'.op = NoOp
                  /\ db' = db]_vars

C13_Witness ==
    /\ last.req.method = "POST"
    /\ last.req.ctype = TypeJSON
    /\ last.req.body.json.ID = FormatInt(1)
    /\ last.resp.status = 201
    /\ last.resp.id = 2
    /\ Len(Col(db)) = 2

\* The segment of a path after its last slash.
TrailingSegment(path) ==
    LET at == CHOOSE i \in 1..Len(path) :
                path[i] = "/" /\ \A j \in (i + 1)..Len(path) : path[j] # "/"
    IN SubSeq(path, at + 1, Len(path))

IsNumeric(seg) == seg # <<>> /\ \A i \in 1..Len(seg) : IsDigit(seg[i])

\* C14: an authenticated DELETE or PATCH on the API prefix whose trailing
\* path segment is missing or not purely numeric is answered 404 and no
\* store operation is called.
C14_BadIDIs404 ==
    (/\ last.w # 0
     /\ last.req.method \in {"DELETE", "PATCH"}
     /\ authorized(last.req.cred[1], last.req.cred[2])
     /\ HasPrefix(last.req.path, APIPath)
     /\ ~IsNumeric(TrailingSegment(last.req.path)))
        => /\ last.resp.status = 404
           /\ last.op = NoOp

\* The IDs of the items of a collection that have Done = true.
DoneIDs(col) == {col[i].ID : i \in {k \in 1..Len(col) : col[k].Done}}

\* C15 as stated: once an item with some ID has been observed with Done =
\* true, every item with that ID observed later has Done = true.  The
\* earlier observation is the listing a GET has read and not yet written
\* out, the later one the file as it is now.
C15_DoneStays ==
    \A w \in Workers :
        wk[w].pc = "use" =>
            \A k \in 1..Len(Col(db)) :
                Col(db)[k].ID \in DoneIDs(Unmarshal(wk[w].buf)) => Col(db)[k].Done

\* C15 as amended: an item stored with Done = true has Done = true for as
\* long as it stays in the collection; no write clears it.
C15_DoneStaysWhilePresent ==
    [][db' # db =>
          LET old == Col(db)
              new == Col(db')
          IN \A k \in 1..Len(old) :
                old[k].Done =>
                    \A j \in 1..Len(new) : new[j].ID = old[k].ID => new[j].Done]_vars

C15_Witness ==
    /\ last.op.kind = "remove"
    /\ last.err = NoErr
    /\ \E k \in 1..Len(Col(db)) : Col(db)[k].Done

\* C16: an authenticated GET / is answered 200 with the HTML page of the
\* stored items in every state of the store; 500 only when the stored
\* collection does not decode or the page does not render.
C16_RootPageAlways ==
    (/\ last.op.kind = "root"
     /\ last.req.method = "GET"
     /\ last.req.path = Slash)
        => \/ /\ last.resp.status = 200
              /\ last.resp.text = "<html>"
              /\ last.resp.json = last.snap
           \/ /\ last.resp.status = 500
              /\ last.resp.text = "unable to unmarshal collection"

\* C17: concurrent Adds, Removes and Completes are serialized and none is
\* lost.  While a worker's transaction is open the file is as its closure
\* found it; the file changes only when a transaction commits, and then to
\* the result of that one operation applied to the file as the commit
\* before left it (so the collection is always the committed operations
\* applied one at a time, in commit order); and every committed Add, also
\* one that ran next to another, adds one item with an ID no item has.
C17_Serialized ==
    [][/\ \A w \in Workers :
            wk[w].pc = "commit" => wk[w].res = Closure(db, wk[w].op)
       /\ db' # db =>
            \E w \in Workers :
                /\ wk[w].pc = "commit"
                /\ wk'[w].pc = "idle"
                /\ db' = UpdateEnd(db, Closure(db, wk[w].op))
       /\ \A w \in Workers :
            (Ending(w, "add") /\ wk'[w].pc = "idle")
            => /\ last'.err = NoErr
               /\ Len(Col(db')) = Len(Col(db)) + 1
               /\ last'.item.ID \notin IDSet(Col(db))
               /\ IDSet(Col(db')) = IDSet(Col(db)) \cup {last'.item.ID}]_vars

C17_Witness ==
    \E w, v \in Workers :
        /\ w # v
        /\ Ending(w, "add")
        /\ wk[v].pc = "update"
        /\ wk[v].op.kind = "add"
        /\ Col(db) = <<>>

\* C18: once an Add has committed the key exists in every later state;
\* removing every item leaves an empty array under it.  From then on an
\* authenticated GET on the API prefix is answered 200, with an empty
\* array when the collection it read is empty, never "no items yet"; and
\* Remove and Complete on the emptied collection fail with NotFound.
C18_KeyStays ==
    [][/\ db.key => db'.key
       /\ \A w \in Workers :
            (/\ Ending(w, "remove") \/ Ending(w, "complete")
             /\ db.key
             /\ Col(db) = <<>>
             /\ wk'[w].pc = "idle")
            => IsNotFound(last'.err) /\ db' = db
       /\ (last'.op.kind = "all" /\ db.key)
            => /\ last'.resp.status = 200
               /\ last'.snap = <<>> => last'.resp.json = <<>>]_vars

\* C19: an item is stored with Done = true only if a Complete of its ID
\* has succeeded: an Add stores its item with Done = false whatever the
\* request body holds, and no other write but Complete sets Done.
C19_DoneOnlyByComplete ==
    [][\A j \in 1..Len(Col(db')) :
          (/\ Col(db')[j].Done
           /\ ~\E k \in 1..Len(Col(db)) :
                 Col(db)[k].ID = Col(db')[j].ID /\ Col(db)[k].Done)
          => \E w \in Workers :
                /\ Ending(w, "complete")
                /\ wk'[w].pc = "idle"
                /\ wk[w].op.id = Col(db')[j].ID
                /\ last'.err = NoErr]_vars

====
